---- MODULE Spec2Model ----
(***************************************************************************)
(* Job queue, lease and completion ledger of the Freshservice/Guru bridge: *)
(* lib/queue.js over the shared key-value store, the worker's bounded      *)
(* drain loop and the webhook producer.                                    *)
(***************************************************************************)
EXTENDS Integers, Sequences, FiniteSets, TLC

VARIABLES
    queue,  \* the list at QUEUE_KEY, head first, as kv.lpop delivers its entries
    lock,   \* LOCK_PREFIX<jobId> -> seconds the lease still lives (0: no key)
    done,   \* DONE_PREFIX<jobId> -> seconds the record still lives (0: no key)
    ticks,  \* number of clock steps taken
    hist,   \* the two most recent calls of the exported functions, the older
            \* one first
    qPre,   \* the list as it was when the most recent call started
    kPre,   \* the keys as they were when the most recent call started
    since,  \* jobId -> the ttl its lease key was last set with, the caller
            \* that set it and the seconds passed since, when it was not
            \* deleted since (history of the lease, read by no operation)
    marked, \* jobId -> the ttl its completion record was last written with and
            \* the seconds passed since (history of the ledger, read by no
            \* operation)
    popped, \* queue slot (the ordinal of its request) -> the times dequeueJob
            \* has returned it to a worker (read by no operation)
    wk,     \* worker invocation -> where it is in the handler and its locals
    wh,     \* the webhook invocation: where it is and its jobId
    enq,    \* requests the webhook has let through to enqueueJob
    expired,     \* jobId -> a lease of it has run out while the invocation
                 \* that took it was between acquireLock and the end of
                 \* releaseLock (read by no operation)
    win,         \* jobId -> the LockTtl seconds after a successful acquireLock
                 \* and the processOneJob calls started in them
    leaseStarts  \* jobId -> processOneJob calls started since its lease was set

sysVars == <<wk, wh, enq, expired, win, leaseStarts, popped>>

vars == <<queue, lock, done, ticks, hist, qPre, kPre, since, marked, popped,
          wk, wh, enq, expired, win, leaseStarts>>

----------------------------------------------------------------------------
(* Bounds of the model *)

MaxQueue == 2       \* enqueueJob is called only while the list is shorter
MaxTail == 1        \* entries that follow a run of bad entries at the start
MaxTicks == 1       \* clock steps
MaxEnq == 2         \* requests the webhook lets through to enqueueJob

(* Program constants *)

MaxAttempts == 10       \* for (let i = 0; i < 10; i++)
DefaultLockTtl == 120   \* acquireLock(jobId, ttlSeconds = 120)
DefaultDoneTtl == 3600  \* markDone(jobId, ttlSeconds = 3600)
LockTtl == 180          \* acquireLock(job.jobId, 180)
DoneTtl == 6 * 3600     \* markDone(job.jobId, 6 * 3600)

JobIds == {"a", "b"}

\* the value of marked for a completion key that does not exist
Never == [age |-> 0, ttl |-> 0]

\* the value of since for a lease key that does not exist; by is the caller
\* whose acquireLock set the key
NoLease == [age |-> 0, ttl |-> 0, by |-> 0]

\* the keys and the lease history as they are
Keys == [lock |-> lock, done |-> done, since |-> since, marked |-> marked]

----------------------------------------------------------------------------
(* JavaScript values.  Every value is a record tagged by k.                 *)

Null == [k |-> "null"]
Undefined == [k |-> "undefined"]
NaN == [k |-> "NaN"]
\* the number v + f/10
Frac(v, f) == [k |-> "number", v |-> v, f |-> f]
Num(n) == Frac(n, 0)
Arr == [k |-> "array"]

\* A job mapping: jobId, createdAt and one further attribute whose value is
\* absent, undefined, NaN, null or the number one.
Attrs == {"absent", "undefined", "NaN", "null", "one"}
Obj(j, c, x) == [k |-> "object", jobId |-> j, createdAt |-> c, attr |-> x]

\* A string: empty, text that is no JSON, or the JSON text of a document.
EmptyText == [t |-> "empty"]
Garbage == [t |-> "garbage"]
JsonText(d) == [t |-> "json", doc |-> d]
Str(text) == [k |-> "string", text |-> text]

\* typeof v
TypeOf(v) ==
    CASE v.k = "string" -> "string"
      [] v.k \in {"object", "array", "null"} -> "object"
      [] v.k \in {"number", "NaN"} -> "number"
      [] OTHER -> v.k

\* !v
Falsy(v) ==
    \/ v.k \in {"null", "undefined", "NaN"}
    \/ v.k = "number" /\ v.v = 0 /\ v.f = 0
    \/ v.k = "string" /\ v.text = EmptyText

\* JSON.stringify(v) of a mapping: an undefined attribute is left out and NaN
\* is written as null.
JSONstringify(v) ==
    IF v.k = "object"
    THEN Str(JsonText([v EXCEPT !.attr =
                         CASE v.attr = "undefined" -> "absent"
                           [] v.attr = "NaN" -> "null"
                           [] OTHER -> v.attr]))
    ELSE Str(JsonText(v))

\* JSON.parse(s): the document's value, or a SyntaxError.
JSONparse(s) ==
    IF s.text.t = "json"
    THEN [ok |-> TRUE, val |-> s.text.doc]
    ELSE [ok |-> FALSE, val |-> Null]

----------------------------------------------------------------------------
(* The handlers' invocations *)

Workers == {1, 2}

\* a worker invocation that has not started
Idle == [pc |-> "idle", maxJobs |-> Num(1), i |-> 0, att |-> 0, job |-> Null,
         processed |-> <<>>, res |-> "none", out |-> "none"]

\* the webhook invocation at rest, out being its last response
NoRequest(out) == [pc |-> "idle", jobId |-> "", out |-> out]

\* The handlers at rest: no invocation runs.
InitSys ==
    /\ wk = [w \in Workers |-> Idle]
    /\ wh = NoRequest("none")
    /\ enq = 0
    /\ expired = [j \in JobIds |-> FALSE]
    /\ win = [j \in JobIds |-> [left |-> 0, starts |-> 0]]
    /\ leaseStarts = [j \in JobIds |-> 0]
    /\ popped = [n \in 1..MaxEnq |-> 0]

----------------------------------------------------------------------------
(* The store's list primitives *)

\* A faulty variant: the value is pushed at the head: lpush for rpush
rpushAtHead(q, v) == <<v>> \o q

\* kv.rpush(QUEUE_KEY, v)
rpush(q, v) == Append(q, v)

\* A faulty variant: lindex 0 for lpop, the head is read and stays in the list
lpopPeek(q) == IF q = <<>> THEN [val |-> Null, rest |-> q]
                           ELSE [val |-> Head(q), rest |-> q]

\* A faulty variant: the pop goes to another key, which holds no list
lpopOtherKey(q) == [val |-> Null, rest |-> q]

\* kv.lpop(QUEUE_KEY): the head, null on an empty list
lpop(q) == IF q = <<>> THEN [val |-> Null, rest |-> q]
                       ELSE [val |-> Head(q), rest |-> Tail(q)]

\* A faulty variant: one entry is popped where the whole list is to go
delHeadOnly(q) == IF q = <<>> THEN q ELSE Tail(q)

\* kv.del(QUEUE_KEY): the list is gone
delList(q) == <<>>

----------------------------------------------------------------------------
(* The store's key primitives.  m maps a key to the seconds it still lives. *)

\* A faulty variant: SET key EX ttl without NX, the key is set whether it
\* exists or not
setNxExAlways(m, key, ttl) == [ok |-> TRUE, m |-> [m EXCEPT ![key] = ttl]]

\* kv.set(key, "1", { nx: true, ex: ttl }): "OK" and the key set when the key
\* does not exist, null and no change when it does
setNxEx(m, key, ttl) ==
    IF m[key] = 0
    THEN [ok |-> TRUE, m |-> [m EXCEPT ![key] = ttl]]
    ELSE [ok |-> FALSE, m |-> m]

\* A faulty variant: px for ex, the ttl is taken for milliseconds
setPx(m, key, ttl) == [m EXCEPT ![key] = ttl \div 1000]

\* kv.set(key, "1", { ex: ttl })
setEx(m, key, ttl) == [m EXCEPT ![key] = ttl]

\* A faulty variant: every key of the kind is deleted, not the one named
delEvery(m, key) == [k \in DOMAIN m |-> 0]

\* kv.del(key)
del(m, key) == [m EXCEPT ![key] = 0]

\* kv.get(key): the value, null when the key does not exist
get(m, key) == IF m[key] > 0 THEN Str(Garbage) ELSE Null

\* A faulty variant: keys never expire
elapseNever(m, d) == m

\* the keys after d seconds: a key whose life is over is gone
elapse(m, d) == [key \in DOMAIN m |-> IF m[key] > d THEN m[key] - d ELSE 0]

----------------------------------------------------------------------------
(* lib/queue.js *)

\* A faulty variant: the job is pushed as it is, not serialized
enqueuePayloadNative(job) == job

\* what enqueueJob(job) pushes
enqueuePayload(job) == JSONstringify(job)

\* A faulty variant: `return` for `return null` on an empty list
dequeueIterBareReturn(raw) ==
    IF Falsy(raw) THEN [act |-> "return", val |-> Undefined]
    ELSE IF TypeOf(raw) # "string" THEN [act |-> "continue", val |-> Null]
    ELSE LET p == JSONparse(raw)
         IN  IF ~p.ok THEN [act |-> "continue", val |-> Null]
             ELSE IF Falsy(p.val) \/ TypeOf(p.val) # "object"
                  THEN [act |-> "continue", val |-> Null]
                  ELSE [act |-> "return", val |-> p.val]

\* One pass of dequeueJob's loop body over the popped value raw.
dequeueIter(raw) ==
    IF Falsy(raw) THEN [act |-> "return", val |-> Null]
    ELSE IF TypeOf(raw) # "string" THEN [act |-> "continue", val |-> Null]
    ELSE LET p == JSONparse(raw)
         IN  IF ~p.ok THEN [act |-> "continue", val |-> Null]
             ELSE IF Falsy(p.val) \/ TypeOf(p.val) # "object"
                  THEN [act |-> "continue", val |-> Null]
                  ELSE [act |-> "return", val |-> p.val]

\* dequeueJob() run from pass i on the list q with nobody else touching the
\* list: the value returned, the list left and the lpop calls made.
RECURSIVE dequeueRun(_, _)
dequeueRun(q, i) ==
    IF i >= MaxAttempts THEN [ret |-> Null, q |-> q, calls |-> i]
    ELSE LET p == lpop(q)
             o == dequeueIter(p.val)
         IN  IF o.act = "return"
             THEN [ret |-> o.val, q |-> p.rest, calls |-> i + 1]
             ELSE dequeueRun(p.rest, i + 1)

----------------------------------------------------------------------------
(* The other copy of lib/queue.js *)

\* what its enqueueJob(job) pushes: a string is forwarded as it is
enqueuePayloadAlt(job) ==
    IF TypeOf(job) = "string" THEN job ELSE JSONstringify(job)

\* One pass of its dequeueJob's loop body.
dequeueIterAlt(raw) ==
    IF Falsy(raw) THEN [act |-> "return", val |-> Null]
    ELSE IF TypeOf(raw) = "object" THEN [act |-> "return", val |-> raw]
    ELSE IF TypeOf(raw) # "string" THEN [act |-> "continue", val |-> Null]
    ELSE LET p == JSONparse(raw)
         IN  IF ~p.ok THEN [act |-> "continue", val |-> Null]
             ELSE IF Falsy(p.val) \/ TypeOf(p.val) # "object"
                  THEN [act |-> "continue", val |-> Null]
                  ELSE [act |-> "return", val |-> p.val]

RECURSIVE dequeueRunAlt(_, _)
dequeueRunAlt(q, i) ==
    IF i >= MaxAttempts THEN [ret |-> Null, q |-> q, calls |-> i]
    ELSE LET p == lpop(q)
             o == dequeueIterAlt(p.val)
         IN  IF o.act = "return"
             THEN [ret |-> o.val, q |-> p.rest, calls |-> i + 1]
             ELSE dequeueRunAlt(p.rest, i + 1)

----------------------------------------------------------------------------
(* Calls of the queue functions by a single caller *)

\* hist after the call e: e and the call before it
Remember(e) == IF hist = <<>> THEN <<e>> ELSE <<hist[Len(hist)], e>>

Event(op, arg, ret) == [op |-> op, arg |-> arg, ret |-> ret]

\* the jobs a caller hands to enqueueJob
Jobs == {Obj(j, 0, x) : j \in JobIds, x \in Attrs}

\* values that are no mapping and that enqueueJob serializes all the same
OtherArgs == {Arr, Null}

\* strings a caller hands to the other copy's enqueueJob
StringJobs == {Str(EmptyText), Str(Garbage), Str(JsonText(Arr))}

EnqueueJob(job) ==
    /\ Len(queue) < MaxQueue
    /\ queue' = rpush(queue, enqueuePayload(job))
    /\ qPre' = queue
    /\ hist' = Remember(Event("enqueueJob", job, Null))
    /\ UNCHANGED <<lock, done, ticks, kPre, since, marked, sysVars>>

EnqueueJobAlt(job) ==
    /\ Len(queue) < MaxQueue
    /\ queue' = rpush(queue, enqueuePayloadAlt(job))
    /\ qPre' = queue
    /\ hist' = Remember(Event("enqueueJobAlt", job, Null))
    /\ UNCHANGED <<lock, done, ticks, kPre, since, marked, sysVars>>

DequeueJob ==
    LET r == dequeueRun(queue, 0)
    IN  /\ queue' = r.q
        /\ qPre' = queue
        /\ hist' = Remember(Event("dequeueJob", Num(r.calls), r.ret))
        /\ UNCHANGED <<lock, done, ticks, kPre, since, marked, sysVars>>

DequeueJobAlt ==
    LET r == dequeueRunAlt(queue, 0)
    IN  /\ queue' = r.q
        /\ qPre' = queue
        /\ hist' = Remember(Event("dequeueJobAlt", Num(r.calls), r.ret))
        /\ UNCHANGED <<lock, done, ticks, kPre, since, marked, sysVars>>

\* purgeQueue(): kv.del(QUEUE_KEY); the call is remembered with the length of
\* the list it found
PurgeQueue ==
    /\ queue' = delList(queue)
    /\ qPre' = queue
    /\ hist' = Remember(Event("purgeQueue", Num(Len(queue)), Null))
    /\ UNCHANGED <<lock, done, ticks, kPre, since, marked, sysVars>>

\* Entries that are no well-formed job, as kv.lpop may deliver them.
BadEntries ==
    { Str(EmptyText), Str(Garbage), Str(JsonText(Arr)), Str(JsonText(Null)),
      Str(JsonText(Num(1))), Obj("a", 0, "absent"), Arr, Num(1), Num(0) }

Run(v, n) == [i \in 1..n |-> v]

RECURSIVE SeqsUpTo(_, _)
SeqsUpTo(S, n) ==
    IF n = 0 THEN {<<>>}
    ELSE LET shorter == SeqsUpTo(S, n - 1)
         IN  shorter \cup {Append(s, v) : s \in shorter, v \in S}

\* The entries that follow a run of bad entries: a job of either jobId, text
\* that is no JSON, the empty string.
TailEntries ==
    { enqueuePayload(Obj(j, 0, "one")) : j \in JobIds }
        \cup {Str(Garbage), Str(EmptyText)}

\* The lists a caller may find: a run of one kind of bad entry of length 0,
\* MaxAttempts - 1, MaxAttempts or MaxAttempts + 1, then a few entries.
InitQueues ==
    { Run(b, n) \o t :
        b \in BadEntries,
        n \in {0, MaxAttempts - 1, MaxAttempts, MaxAttempts + 1},
        t \in SeqsUpTo(TailEntries, MaxTail) }

\* The keys a caller of the queue functions may find: none, or a lease of
\* one jobId and a completion record of the other.
InitKeys ==
    { [lock |-> [j \in JobIds |-> 0], done |-> [j \in JobIds |-> 0]],
      [lock |-> [j \in JobIds |-> IF j = "a" THEN DefaultLockTtl ELSE 0],
       done |-> [j \in JobIds |-> IF j = "b" THEN DefaultDoneTtl ELSE 0]] }

\* The store as a caller finds it, with one of the lists Q
InitStore(Q) ==
    /\ queue \in Q
    /\ \E keys \in InitKeys :
          /\ lock = keys.lock
          /\ done = keys.done
          /\ since = [j \in JobIds |->
                IF keys.lock[j] = 0 THEN NoLease
                ELSE [age |-> 0, ttl |-> keys.lock[j], by |-> 0]]
          /\ marked = [j \in JobIds |->
                IF keys.done[j] = 0 THEN Never
                ELSE [age |-> 0, ttl |-> keys.done[j]]]
    /\ ticks = 0
    /\ hist = <<>>
    /\ qPre = queue
    /\ kPre = Keys
    /\ InitSys

InitQueue == InitStore(InitQueues)

NextQueue ==
    \/ \E job \in Jobs \cup OtherArgs : EnqueueJob(job)
    \/ \E job \in Jobs \cup StringJobs : EnqueueJobAlt(job)
    \/ DequeueJob
    \/ DequeueJobAlt
    \/ PurgeQueue

SpecQueue == InitQueue /\ [][NextQueue]_vars

----------------------------------------------------------------------------
(* Calls of the lease and ledger functions by concurrent callers.  Each call *)
(* is one command of the store.                                              *)

Callers == {1, 2}
LockTtls == {DefaultLockTtl, LockTtl}
DoneTtls == {DefaultDoneTtl, DoneTtl}
TickSteps == {60, DoneTtl \div 2}

\* rem: the seconds the lease of id still had when the call started
CallEvent(op, by, id, ttl, ret) ==
    [op |-> op, by |-> by, arg |-> id, ttl |-> ttl, ret |-> ret,
     rem |-> lock[id]]

\* acquireLock(jobId, ttlSeconds): its result and the lease keys after it
acquireLock(jobId, ttlSeconds) == setNxEx(lock, jobId, ttlSeconds)

\* A faulty variant: the key deleted is built from another prefix, no lease
\* key goes
releaseLockOtherPrefix(jobId) == lock

\* releaseLock(jobId): the lease keys after it
releaseLock(jobId) == del(lock, jobId)

\* markDone(jobId, ttlSeconds): the completion keys after it
markDone(jobId, ttlSeconds) == setEx(done, jobId, ttlSeconds)

\* A faulty variant: the key read is built from LOCK_PREFIX
isDoneLock(jobId) == ~Falsy(get(lock, jobId))

\* isDone(jobId)
isDone(jobId) == ~Falsy(get(done, jobId))

\* the lease history after acquireLock(jobId, ttl) returned ok to caller by
SinceAcquire(by, jobId, ttl, ok) ==
    IF ok THEN [since EXCEPT ![jobId] = [age |-> 0, ttl |-> ttl, by |-> by]]
    ELSE since

AcquireLock(c, jobId, ttl) ==
    LET r == acquireLock(jobId, ttl)
    IN  /\ lock' = r.m
        /\ since' = SinceAcquire(c, jobId, ttl, r.ok)
        /\ hist' = Remember(CallEvent("acquireLock", c, jobId, ttl, r.ok))
        /\ kPre' = Keys
        /\ UNCHANGED <<queue, qPre, done, marked, ticks, sysVars>>

ReleaseLock(c, jobId) ==
    /\ lock' = releaseLock(jobId)
    /\ since' = [since EXCEPT ![jobId] = NoLease]
    /\ hist' = Remember(CallEvent("releaseLock", c, jobId, 0, TRUE))
    /\ kPre' = Keys
    /\ UNCHANGED <<queue, qPre, done, marked, ticks, sysVars>>

MarkDone(c, jobId, ttl) ==
    /\ done' = markDone(jobId, ttl)
    /\ marked' = [marked EXCEPT ![jobId] = [age |-> 0, ttl |-> ttl]]
    /\ hist' = Remember(CallEvent("markDone", c, jobId, ttl, TRUE))
    /\ kPre' = Keys
    /\ UNCHANGED <<queue, qPre, lock, since, ticks, sysVars>>

IsDone(c, jobId) ==
    /\ hist' = Remember(CallEvent("isDone", c, jobId, 0, isDone(jobId)))
    /\ kPre' = Keys
    /\ UNCHANGED <<queue, qPre, lock, done, since, marked, ticks, sysVars>>

\* the history h of a key after d seconds: the age of a key is counted up to
\* its ttl
Aged(h, d) ==
    [j \in JobIds |->
        IF h[j].ttl = 0 THEN h[j]
        ELSE [h[j] EXCEPT !.age = IF @ + d >= h[j].ttl THEN h[j].ttl ELSE @ + d]]

\* the lease history after d seconds
SinceElapse(d) == Aged(since, d)

\* d seconds pass
Elapse(d) ==
    /\ ticks < MaxTicks
    /\ ticks' = ticks + 1
    /\ lock' = elapse(lock, d)
    /\ done' = elapse(done, d)
    /\ since' = SinceElapse(d)
    /\ marked' = Aged(marked, d)

TickLease(d) ==
    /\ Elapse(d)
    /\ hist' = Remember([op |-> "tick", by |-> 0, arg |-> "", ttl |-> d])
    /\ kPre' = Keys
    /\ UNCHANGED <<queue, qPre, sysVars>>

InitLease ==
    /\ queue = <<>>
    /\ lock = [j \in JobIds |-> 0]
    /\ done = [j \in JobIds |-> 0]
    /\ ticks = 0
    /\ hist = <<>>
    /\ qPre = <<>>
    /\ since = [j \in JobIds |-> NoLease]
    /\ marked = [j \in JobIds |-> Never]
    /\ kPre = Keys
    /\ InitSys

NextLease ==
    \/ \E c \in Callers, j \in JobIds, ttl \in LockTtls : AcquireLock(c, j, ttl)
    \/ \E c \in Callers, j \in JobIds : ReleaseLock(c, j)
    \/ \E d \in TickSteps : TickLease(d)

SpecLease == InitLease /\ [][NextLease]_vars

\* Calls of the ledger functions by concurrent callers
NextLedger ==
    \/ \E c \in Callers, j \in JobIds, ttl \in DoneTtls : MarkDone(c, j, ttl)
    \/ \E c \in Callers, j \in JobIds : IsDone(c, j)
    \/ \E d \in TickSteps : TickLease(d)

SpecLedger == InitLease /\ [][NextLedger]_vars

----------------------------------------------------------------------------
(* Numbers of the worker's maxJobs *)

\* Number(v)
ToNumber(v) ==
    CASE v.k = "number" -> v
      [] v.k = "null" -> Num(0)
      [] v.k = "string" /\ v.text = EmptyText -> Num(0)
      [] v.k = "string" /\ v.text.t = "json" /\ v.text.doc.k = "number"
            -> v.text.doc
      [] OTHER -> NaN

\* a < b, false when either is NaN
NumLess(a, b) ==
    /\ a.k = "number"
    /\ b.k = "number"
    /\ (a.v < b.v \/ (a.v = b.v /\ a.f < b.f))

\* Math.min(a, b) and Math.max(a, b): NaN when either is NaN
MathMin(a, b) ==
    IF a.k = "NaN" \/ b.k = "NaN" THEN NaN
    ELSE IF NumLess(b, a) THEN b ELSE a

MathMax(a, b) ==
    IF a.k = "NaN" \/ b.k = "NaN" THEN NaN
    ELSE IF NumLess(a, b) THEN b ELSE a

\* Math.max(1, Math.min(5, Number(maxJobsRaw || 1)))
clampMaxJobs(maxJobsRaw) ==
    MathMax(Num(1), MathMin(Num(5),
        ToNumber(IF Falsy(maxJobsRaw) THEN Num(1) ELSE maxJobsRaw)))

----------------------------------------------------------------------------
(* The worker's handler.  An invocation moves from one await to the next.  *)

\* maxJobs as callers send it: absent (the cron's GET) or 2
MaxJobsInputs == {Undefined, Num(2)}

\* res.status(200).json({ ok: true, processed }): the invocation is over and
\* its locals are gone
Respond(r) ==
    [Idle EXCEPT !.processed = r.processed, !.out = "200"]

\* the invocation r at the loop test `i < maxJobs`: the next dequeueJob, or
\* the response with the processed list
LoopTest(r) ==
    IF NumLess(Num(r.i), r.maxJobs)
    THEN [r EXCEPT !.pc = "dequeue", !.att = 0]
    ELSE Respond(r)

\* `continue`, or the end of the loop body: i++ and the loop test
NextIteration(r) == LoopTest([r EXCEPT !.i = r.i + 1])

\* `if (!job) break`
Break(r) == Respond(r)

\* the jobs whose lease an invocation holds: r is past acquireLock and before
\* the end of releaseLock
Holding(r) == r.pc \in {"processing", "markDone", "release"}

\* A faulty variant: the result of acquireLock is not looked at
afterAcquireAnyway(r, locked) ==
    [r EXCEPT !.pc = "processing", !.res = "none"]

\* A faulty variant: the test sits inside try, so `continue` goes through
\* finally and releaseLock
afterAcquireSkipInTry(r, locked) ==
    IF locked THEN [r EXCEPT !.pc = "processing", !.res = "none"]
    ELSE [r EXCEPT !.pc = "release", !.res = "skipped"]

\* `if (!locked) continue`, else processOneJob(job) is called
afterAcquire(r, locked) ==
    IF locked THEN [r EXCEPT !.pc = "processing", !.res = "none"]
    ELSE NextIteration([r EXCEPT !.res = "skipped"])

Start(w, maxJobsRaw) ==
    /\ wk[w].pc = "idle"
    /\ wk' = [wk EXCEPT ![w] =
                LoopTest([Idle EXCEPT !.maxJobs = clampMaxJobs(maxJobsRaw)])]
    /\ UNCHANGED <<queue, lock, done, ticks, hist, qPre, kPre, since,
                   wh, enq, expired, win, leaseStarts, marked, popped>>

\* one pass of dequeueJob's loop inside the worker: one lpop
DequeuePass(w) ==
    /\ wk[w].pc = "dequeue"
    /\ LET p == lpop(queue)
           o == dequeueIter(p.val)
           r == wk[w]
           returned == o.act = "return" /\ ~Falsy(o.val)
       IN  /\ queue' = p.rest
           /\ wk' = [wk EXCEPT ![w] =
                IF o.act = "return"
                THEN IF Falsy(o.val) THEN Break(r)
                     ELSE [r EXCEPT !.pc = "acquire", !.job = o.val]
                ELSE IF r.att + 1 < MaxAttempts
                     THEN [r EXCEPT !.att = r.att + 1]
                     ELSE Break(r)]
           /\ popped' = IF returned
                        THEN [popped EXCEPT ![o.val.createdAt] = @ + 1]
                        ELSE popped
    /\ UNCHANGED <<lock, done, ticks, hist, qPre, kPre, since,
                   wh, enq, expired, win, leaseStarts, marked>>

\* acquireLock(job.jobId, 180), then the start of processOneJob(job)
Acquire(w) ==
    /\ wk[w].pc = "acquire"
    /\ LET j == wk[w].job.jobId
           a == acquireLock(j, LockTtl)
           r == afterAcquire(wk[w], a.ok)
           started == r.pc = "processing"
       IN  /\ lock' = a.m
           /\ since' = SinceAcquire(w, j, LockTtl, a.ok)
           /\ wk' = [wk EXCEPT ![w] = r]
           /\ leaseStarts' = [leaseStarts EXCEPT ![j] =
                IF a.ok THEN 1 ELSE IF started THEN @ + 1 ELSE @]
           /\ win' = [win EXCEPT ![j] =
                IF ~started THEN @
                ELSE IF a.ok /\ @.left = 0
                     THEN [left |-> LockTtl, starts |-> 1]
                     ELSE [@ EXCEPT !.starts = @ + 1]]
    /\ UNCHANGED <<queue, done, ticks, hist, qPre, kPre, wh, enq, expired,
                   marked, popped>>

\* A faulty variant: catch without finally, a job that raised leaves its lease
afterProcessNoFinally(r, raised) ==
    IF raised THEN NextIteration([r EXCEPT !.res = "failed"])
    ELSE [r EXCEPT !.pc = "markDone"]

\* A faulty variant: no catch inside the loop, a job that raised ends the
\* invocation with an error
afterProcessAbort(r, raised) ==
    IF raised THEN [Idle EXCEPT !.out = "500"]
    ELSE [r EXCEPT !.pc = "markDone"]

\* A faulty variant: the failure is swallowed and the job goes on to markDone
afterProcessSwallow(r, raised) ==
    IF raised THEN [r EXCEPT !.pc = "markDone", !.res = "failed"]
    ELSE [r EXCEPT !.pc = "markDone"]

\* A faulty variant: processed.push comes before markDone, so it is done even
\* when markDone raises
afterMarkDonePushFirst(r, raised) ==
    IF raised THEN [r EXCEPT !.pc = "release", !.res = "failed",
                             !.processed = Append(@, r.job.jobId)]
    ELSE [r EXCEPT !.pc = "release", !.res = "done",
                   !.processed = Append(@, r.job.jobId)]

\* A faulty variant: the job counts as done and its lease is released before
\* markDone is called
afterProcessReleaseFirst(r, raised) ==
    IF raised THEN [r EXCEPT !.pc = "release", !.res = "failed"]
    ELSE [r EXCEPT !.pc = "release", !.res = "done",
                   !.processed = Append(@, r.job.jobId)]

\* the invocation r after processOneJob(job): on to markDone, or through
\* catch to finally when it raised
afterProcess(r, raised) ==
    IF raised THEN [r EXCEPT !.pc = "release", !.res = "failed"]
    ELSE [r EXCEPT !.pc = "markDone"]

\* the invocation r after markDone(job.jobId, 6 * 3600): processed.push and on
\* to finally, or through catch to finally when it raised
afterMarkDone(r, raised) ==
    IF raised THEN [r EXCEPT !.pc = "release", !.res = "failed"]
    ELSE [r EXCEPT !.pc = "release", !.res = "done",
                   !.processed = Append(@, r.job.jobId)]

\* processOneJob(job) returns or raises
ProcessEnd(w, raised) ==
    /\ wk[w].pc = "processing"
    /\ wk' = [wk EXCEPT ![w] = afterProcess(@, raised)]
    /\ UNCHANGED <<queue, lock, done, ticks, hist, qPre, kPre, since,
                   wh, enq, expired, win, leaseStarts, marked, popped>>

\* markDone(job.jobId, 6 * 3600) and processed.push(job.jobId), or markDone
\* raises
MarkDoneStep(w, raised) ==
    /\ wk[w].pc = "markDone"
    /\ done' = IF raised THEN done ELSE markDone(wk[w].job.jobId, DoneTtl)
    /\ marked' = IF raised THEN marked
                 ELSE [marked EXCEPT ![wk[w].job.jobId] =
                          [age |-> 0, ttl |-> DoneTtl]]
    /\ wk' = [wk EXCEPT ![w] = afterMarkDone(@, raised)]
    /\ UNCHANGED <<queue, lock, ticks, hist, qPre, kPre, since,
                   wh, enq, expired, win, leaseStarts, popped>>

\* finally: releaseLock(job.jobId), then the next iteration
ReleaseStep(w) ==
    /\ wk[w].pc = "release"
    /\ lock' = releaseLock(wk[w].job.jobId)
    /\ since' = [since EXCEPT ![wk[w].job.jobId] = NoLease]
    /\ wk' = [wk EXCEPT ![w] = NextIteration(@)]
    /\ UNCHANGED <<queue, done, ticks, hist, qPre, kPre,
                   wh, enq, expired, win, leaseStarts, marked, popped>>

\* the platform ends the invocation while processOneJob is running
Crash(w) ==
    /\ wk[w].pc = "processing"
    /\ wk' = [wk EXCEPT ![w] = [Idle EXCEPT !.out = "killed"]]
    /\ UNCHANGED <<queue, lock, done, ticks, hist, qPre, kPre, since,
                   wh, enq, expired, win, leaseStarts, marked, popped>>

----------------------------------------------------------------------------
(* The webhook's handler, for a valid request *)

\* isDone(jobId): done recently, or on to enqueueJob
WebhookCheck(jobId) ==
    /\ wh.pc = "idle"
    /\ enq < MaxEnq
    /\ IF isDone(jobId)
       THEN /\ wh' = NoRequest("deduped")
            /\ enq' = enq
       ELSE /\ wh' = [pc |-> "enqueue", jobId |-> jobId, out |-> "none"]
            /\ enq' = enq + 1
    /\ UNCHANGED <<queue, lock, done, ticks, hist, qPre, kPre, since,
                   wk, expired, win, leaseStarts, marked, popped>>

\* What becomes of the kick `void fetch(origin + "/api/worker", ...)`: it is
\* not sent for want of a host, it is sent and fails (the fetch rejects or
\* the worker answers with an error), or it is delivered.
LostKicks == {"skipped", "failed"}
Kicks == LostKicks \cup {"delivered"}

\* the worker invocations after a kick aimed at invocation w: a kick that is
\* delivered while w is at rest starts it with the body { maxJobs: 1 }
Kicked(kick, w) ==
    IF kick = "delivered" /\ wk[w].pc = "idle"
    THEN [wk EXCEPT ![w] =
            LoopTest([Idle EXCEPT !.maxJobs = clampMaxJobs(Num(1))])]
    ELSE wk

\* the webhook's response after enqueueJob and the kick: the kick is not
\* awaited and its failure is caught and logged
afterKick(kick) == NoRequest("enqueued")

\* enqueueJob({ jobId, ..., createdAt: Date.now() }), the kick and the
\* response; the time stamp is kept as the ordinal of the request
WebhookEnqueue(kick, w) ==
    /\ wh.pc = "enqueue"
    /\ queue' = rpush(queue, enqueuePayload(Obj(wh.jobId, enq, "absent")))
    /\ wk' = Kicked(kick, w)
    /\ wh' = afterKick(kick)
    /\ UNCHANGED <<lock, done, ticks, hist, qPre, kPre, since,
                   enq, expired, win, leaseStarts, marked, popped>>

\* the lease of jobId j runs out in the next d seconds
Lapses(j, d) == lock[j] > 0 /\ elapse(lock, d)[j] = 0

\* d seconds pass while the handlers run
Tick(d) ==
    /\ Elapse(d)
    /\ expired' = [j \in JobIds |->
            \/ expired[j]
            \/ /\ Lapses(j, d)
               /\ \E w \in Workers : Holding(wk[w]) /\ wk[w].job.jobId = j]
    /\ win' = [j \in JobIds |->
            IF win[j].left > d THEN [win[j] EXCEPT !.left = @ - d]
            ELSE [left |-> 0, starts |-> 0]]
    /\ UNCHANGED <<queue, hist, qPre, kPre, wk, wh, enq, leaseStarts, popped>>

Init ==
    /\ queue = <<>>
    /\ lock = [j \in JobIds |-> 0]
    /\ done = [j \in JobIds |-> 0]
    /\ ticks = 0
    /\ hist = <<>>
    /\ qPre = <<>>
    /\ since = [j \in JobIds |-> NoLease]
    /\ marked = [j \in JobIds |-> Never]
    /\ kPre = Keys
    /\ InitSys

Next ==
    \/ \E w \in Workers, m \in MaxJobsInputs : Start(w, m)
    \/ \E w \in Workers : DequeuePass(w)
    \/ \E w \in Workers : Acquire(w)
    \/ \E w \in Workers, raised \in BOOLEAN : ProcessEnd(w, raised)
    \/ \E w \in Workers, raised \in BOOLEAN : MarkDoneStep(w, raised)
    \/ \E w \in Workers : ReleaseStep(w)
    \/ \E w \in Workers : Crash(w)
    \/ \E j \in JobIds : WebhookCheck(j)
    \/ \E kick \in Kicks, w \in Workers : WebhookEnqueue(kick, w)
    \/ \E d \in TickSteps : Tick(d)

Spec == Init /\ [][Next]_vars

----------------------------------------------------------------------------
(* Properties of the queue functions *)

Last == hist[Len(hist)]
Prev == hist[Len(hist) - 1]

\* A list entry that is a well-formed job: a string whose JSON text is that of
\* a mapping.
WellFormed(e) ==
    /\ e.k = "string"
    /\ e.text.t = "json"
    /\ e.text.doc.k = "object"

\* The mapping a well-formed entry holds.
JobOf(e) == e.text.doc

\* The job as it reads after JSON serialization: an undefined attribute is
\* gone, NaN has become null.
AfterJson(job) ==
    CASE job.attr = "undefined" -> Obj(job.jobId, job.createdAt, "absent")
      [] job.attr = "NaN" -> Obj(job.jobId, job.createdAt, "null")
      [] OTHER -> job

JsonSafe(job) == job.attr \notin {"undefined", "NaN"}

\* the entries the most recent call removed from the head
Removed == Len(qPre) - Len(queue)

\* enqueueJob(J) on the empty list was followed by dequeueJob()
RoundTripCase ==
    /\ Len(hist) >= 2
    /\ Prev.op \in {"enqueueJob", "enqueueJobAlt"}
    /\ Prev.arg.k = "object"
    /\ Last.op = "dequeueJob"
    /\ Len(qPre) = 1

C7_StrictFifo ==
    /\ (Len(hist) >= 1 /\ Last.op = "enqueueJob" /\ Last.arg.k = "object") =>
          /\ Len(queue) = Len(qPre) + 1
          /\ SubSeq(queue, 1, Len(qPre)) = qPre
          /\ WellFormed(queue[Len(queue)])
          /\ JobOf(queue[Len(queue)]) = AfterJson(Last.arg)
    /\ (Len(hist) >= 1 /\ Last.op = "dequeueJob") =>
          /\ Removed >= 0
          /\ queue = SubSeq(qPre, Removed + 1, Len(qPre))
          /\ \A i \in 1..(Removed - 1) : ~WellFormed(qPre[i])
          /\ (Removed >= 1 /\ WellFormed(qPre[Removed])) =>
                Last.ret = JobOf(qPre[Removed])
          /\ (Last.ret.k = "object") =>
                Removed >= 1 /\ WellFormed(qPre[Removed])

\* two jobs were enqueued, and dequeueJob returned the older one and left the
\* newer one in the list
C7_Witness ==
    /\ Len(hist) >= 2
    /\ Prev.op = "enqueueJob"
    /\ Prev.arg.k = "object"
    /\ Last.op = "dequeueJob"
    /\ Last.ret.k = "object"
    /\ Last.ret # AfterJson(Prev.arg)
    /\ queue = <<enqueuePayload(Prev.arg)>>

\* C8 as stated: with k malformed entries (0 <= k <= 9) at the head followed
\* by a well-formed job, one dequeueJob() returns that job and removes exactly
\* those k + 1 entries.
C8_SkipsMalformedRun ==
    (Len(hist) >= 1 /\ Last.op = "dequeueJob") =>
        \A k \in 0..(MaxAttempts - 1) :
            ( /\ Len(qPre) > k
              /\ \A i \in 1..k : ~WellFormed(qPre[i])
              /\ WellFormed(qPre[k + 1]) )
            => /\ Last.ret = JobOf(qPre[k + 1])
               /\ queue = SubSeq(qPre, k + 2, Len(qPre))

\* C9 as stated: dequeueJob() makes at most 10 pops; when the first 10 entries
\* are all malformed it returns null having removed exactly those 10, the
\* entries from the 11th on staying in their order.
C9_CeilingOnMalformed ==
    (Len(hist) >= 1 /\ Last.op = "dequeueJob") =>
        /\ Last.arg.v <= MaxAttempts
        /\ Removed <= MaxAttempts
        /\ ( /\ Len(qPre) >= MaxAttempts
             /\ \A i \in 1..MaxAttempts : ~WellFormed(qPre[i]) )
           => /\ Last.ret = Null
              /\ queue = SubSeq(qPre, MaxAttempts + 1, Len(qPre))

\* C10 as stated: every non-null value dequeueJob() returns is a mapping
\* obtained by parsing a string entry; a popped non-string is never returned,
\* nor is a string that parses to something other than a mapping.
C10_ReturnsParsedMappingOnly ==
    (Len(hist) >= 1 /\ Last.op \in {"dequeueJob", "dequeueJobAlt"}
        /\ Last.ret # Null) =>
        /\ Last.ret.k = "object"
        /\ Removed >= 1
        /\ WellFormed(qPre[Removed])
        /\ Last.ret = JobOf(qPre[Removed])

\* C10 for lib/queue.js alone
C10_LibOnly ==
    (Len(hist) >= 1 /\ Last.op = "dequeueJob") => C10_ReturnsParsedMappingOnly

\* C10 for the other copy alone
C10_AltOnly ==
    (Len(hist) >= 1 /\ Last.op = "dequeueJobAlt") => C10_ReturnsParsedMappingOnly

\* C11: dequeueJob() on an empty queue returns null and leaves the queue
\* empty, and it leaves every lease and every completion record as it was.
C11_EmptyQueueGivesNull ==
    (Len(hist) >= 1 /\ Last.op = "dequeueJob" /\ qPre = <<>>) =>
        /\ Last.ret = Null
        /\ queue = <<>>
        /\ lock = kPre.lock
        /\ done = kPre.done

\* dequeueJob() returned null on the empty queue while a lease and a
\* completion record existed
C11_Witness ==
    /\ Len(hist) >= 1
    /\ Last.op = "dequeueJob"
    /\ qPre = <<>>
    /\ Last.ret = Null
    /\ queue = <<>>
    /\ lock["a"] = DefaultLockTtl
    /\ done["b"] = DefaultDoneTtl

\* C14: purgeQueue() empties the list whatever it held, well-formed and
\* malformed entries alike; the dequeueJob() that follows it with no enqueue
\* in between returns null and leaves the list empty.
C14_PurgeEmpties ==
    /\ (Len(hist) >= 1 /\ Last.op = "purgeQueue") => queue = <<>>
    /\ (Len(hist) >= 2 /\ Prev.op = "purgeQueue" /\ Last.op = "dequeueJob") =>
          /\ qPre = <<>>
          /\ Last.ret = Null
          /\ queue = <<>>

\* a list of more than MaxAttempts entries, malformed ones among them, was
\* purged and the dequeueJob() that followed returned null
C14_Witness ==
    /\ Len(hist) >= 2
    /\ Prev.op = "purgeQueue"
    /\ Prev.arg.v > MaxAttempts
    /\ Last.op = "dequeueJob"
    /\ Last.ret = Null
    /\ queue = <<>>

----------------------------------------------------------------------------
(* Properties of the lease functions *)

IsCall(e, op) == e.op = op

\* two callers called acquireLock on the same id one right after the other,
\* the first finding no lease
TwoAcquires ==
    /\ Len(hist) >= 2
    /\ IsCall(Prev, "acquireLock")
    /\ IsCall(Last, "acquireLock")
    /\ Prev.arg = Last.arg
    /\ Prev.by # Last.by
    /\ Prev.rem = 0

\* C3: of two concurrent acquireLock(id, ttl) calls on the same id that start
\* with no lease for id, in either order of their store commands, exactly one
\* returns true and the other returns false.
C3_ExactlyOneAcquires ==
    TwoAcquires => Prev.ret /\ ~Last.ret

C3_Witness ==
    /\ TwoAcquires
    /\ Prev.by = 2
    /\ Prev.ret
    /\ ~Last.ret
    /\ lock[Last.arg] = Prev.ttl

\* the lease of id that the call before the most recent one left behind had
\* run out when the most recent call started
RanOut(id) ==
    /\ kPre.since[id] # NoLease
    /\ kPre.since[id].age >= kPre.since[id].ttl

\* C4: acquireLock(id, ttl) returns true when no lease for id exists, false
\* while a lease set earlier is neither released nor ttl seconds old (and then
\* it changes no lease), and true again once the ttl of that lease has elapsed.
C4_AcquireFollowsLease ==
    (Len(hist) >= 1 /\ IsCall(Last, "acquireLock")) =>
        /\ Last.ret = (kPre.since[Last.arg] = NoLease \/ RanOut(Last.arg))
        /\ Last.ret = (Last.rem = 0)
        /\ ~Last.ret => lock = kPre.lock /\ since = kPre.since
        /\ Last.ret => lock = [kPre.lock EXCEPT ![Last.arg] = Last.ttl]

\* acquireLock returned true on an id whose earlier lease was never released:
\* its ttl had elapsed
C4_Witness ==
    /\ Len(hist) >= 1
    /\ IsCall(Last, "acquireLock")
    /\ Last.ret
    /\ RanOut(Last.arg)

\* C5: releaseLock(id) leaves no lease for id and changes no other key; the
\* acquireLock(id, ttl) that follows it returns true whatever time the lease
\* had left; on an id without a lease it changes nothing, so a second release
\* right after a release changes nothing.
C5_ReleaseLeavesNoLease ==
    /\ (Len(hist) >= 1 /\ IsCall(Last, "releaseLock")) =>
          /\ lock = [kPre.lock EXCEPT ![Last.arg] = 0]
          /\ done = kPre.done
          /\ queue = qPre
          /\ Last.rem = 0 => lock = kPre.lock
    /\ (Len(hist) >= 2 /\ IsCall(Prev, "releaseLock") /\ Prev.arg = Last.arg) =>
          /\ IsCall(Last, "acquireLock") => Last.ret
          /\ IsCall(Last, "releaseLock") => lock = kPre.lock

\* a lease with time left was released and acquireLock then returned true
C5_Witness ==
    /\ Len(hist) >= 2
    /\ IsCall(Prev, "releaseLock")
    /\ Prev.rem > 0
    /\ Prev.rem < LockTtl
    /\ IsCall(Last, "acquireLock")
    /\ Prev.arg = Last.arg
    /\ Last.ret

\* releaseLock was called twice in a row on the same id
C5_WitnessTwice ==
    /\ Len(hist) >= 2
    /\ IsCall(Prev, "releaseLock")
    /\ Prev.rem > 0
    /\ IsCall(Last, "releaseLock")
    /\ Prev.arg = Last.arg

----------------------------------------------------------------------------
(* Properties of the ledger functions *)

\* the completion record of id that the calls before the most recent one left
\* behind was still alive when the most recent call started: it was written
\* and less than its ttl has passed since
RecordAlive(id) ==
    /\ kPre.marked[id] # Never
    /\ kPre.marked[id].age < kPre.marked[id].ttl

\* C13: isDone(id) returns false for an id that was never marked; after
\* markDone(id, ttl) it returns true on every call until ttl seconds have
\* passed, and false once they have passed without a further markDone.  It
\* changes no key.
C13_IsDoneFollowsRecord ==
    (Len(hist) >= 1 /\ IsCall(Last, "isDone")) =>
        /\ Last.ret = RecordAlive(Last.arg)
        /\ kPre.marked[Last.arg] = Never => ~Last.ret
        /\ done = kPre.done
        /\ lock = kPre.lock

\* isDone returned false on an id that had been marked: the ttl of its record
\* had passed
C13_Witness ==
    /\ Len(hist) >= 1
    /\ IsCall(Last, "isDone")
    /\ ~Last.ret
    /\ kPre.marked[Last.arg] # Never
    /\ kPre.marked[Last.arg].ttl = DefaultDoneTtl

\* isDone returned true on a record that had aged without running out
C13_WitnessAlive ==
    /\ Len(hist) >= 1
    /\ IsCall(Last, "isDone")
    /\ Last.ret
    /\ kPre.marked[Last.arg].age > 0

----------------------------------------------------------------------------
(* Properties of the worker *)

\* invocation w is inside processOneJob for jobId j
InProcess(w, j) == wk[w].pc = "processing" /\ wk[w].job.jobId = j

\* C1: two worker invocations that popped slots with the same jobId are never
\* both inside processOneJob for that jobId, as long as no lease of that jobId
\* has run out while its holder was at work on the slot (between its
\* acquireLock and the end of its releaseLock).
C1_MutualExclusion ==
    \A j \in JobIds : \A w1, w2 \in Workers :
        (w1 # w2 /\ InProcess(w1, j) /\ InProcess(w2, j)) => expired[j]

\* one invocation is inside processOneJob, time has passed without the lease
\* running out, and the other invocation popped a slot with the same jobId
\* and skipped it
C1_Witness ==
    \E j \in JobIds : \E w1, w2 \in Workers :
        /\ w1 # w2
        /\ InProcess(w1, j)
        /\ wk[w2].pc = "dequeue"
        /\ wk[w2].res = "skipped"
        /\ wk[w2].job.jobId = j
        /\ ~expired[j]
        /\ lock[j] > 0
        /\ lock[j] < LockTtl

\* the slot of a queue entry: the ordinal of the request that enqueued it
SlotOf(e) == JobOf(e).createdAt

\* the slots in the list
QueuedSlots == {SlotOf(queue[i]) : i \in 1..Len(queue)}

\* invocation w has a job in hand that dequeueJob returned to it
HasJob(w) == wk[w].pc \in {"acquire", "processing", "markDone", "release"}

\* C12: across concurrent dequeueJob() calls every queue entry is removed by
\* exactly one pop and returned to at most one caller: no slot is returned
\* twice, a slot that was returned is not in the queue again, the slots that
\* wait keep their order, and two invocations never have the same slot in
\* hand.
C12_EachSlotPoppedOnce ==
    /\ \A n \in 1..MaxEnq : popped[n] <= 1
    /\ \A n \in QueuedSlots : popped[n] = 0
    /\ \A i, j \in 1..Len(queue) :
          i < j => SlotOf(queue[i]) < SlotOf(queue[j])
    /\ \A n \in 1..enq :
          (n \notin QueuedSlots /\ ~(wh.pc = "enqueue" /\ n = enq))
              => popped[n] = 1
    /\ \A w1, w2 \in Workers :
          (w1 # w2 /\ HasJob(w1) /\ HasJob(w2))
              => wk[w1].job.createdAt # wk[w2].job.createdAt

\* two invocations called dequeueJob() at the same time on a list of two
\* slots with one jobId and each was returned one of them
C12_Witness ==
    /\ wk[1].pc = "acquire"
    /\ wk[2].pc = "acquire"
    /\ wk[1].job.jobId = wk[2].job.jobId
    /\ wk[1].job.createdAt # wk[2].job.createdAt
    /\ popped[wk[1].job.createdAt] = 1
    /\ popped[wk[2].job.createdAt] = 1
    /\ queue = <<>>

\* C2 as stated: in the LockTtl seconds that follow a successful acquireLock
\* for a jobId, processOneJob is started at most once for that jobId.
C2_OncePerWindow ==
    \A j \in JobIds : win[j].starts <= 1

\* C2 amended: processOneJob is started at most once per lease of a jobId,
\* that is at most once between one successful acquireLock for it and the
\* next, whatever the number of invocations and of slots with that jobId.
C2_OncePerLease ==
    \A j \in JobIds : leaseStarts[j] <= 1

\* two slots with one jobId were started within LockTtl seconds, each under a
\* lease of its own
C2_Witness ==
    \E j \in JobIds :
        /\ win[j].starts = 2
        /\ leaseStarts[j] = 1
        /\ \E w \in Workers : InProcess(w, j)

----------------------------------------------------------------------------
(* Properties of the worker's loop, step by step *)

\* the invocation w after the step
After(w) == wk'[w]

\* invocation w takes the step
Steps(w) == wk'[w] # wk[w]

\* the step ends invocation w with the response 200
Returns(w) == Steps(w) /\ wk[w].pc # "idle" /\ After(w).out = "200"

\* the step is the platform ending invocation w
Killed(w) == Steps(w) /\ After(w).out = "killed"

\* the step is processOneJob or markDone raising in invocation w
Raises(w) ==
    /\ wk[w].pc \in {"processing", "markDone"}
    /\ Steps(w)
    /\ After(w).res = "failed"

\* the step is releaseLock and what follows it in invocation w, for a job
\* that failed
LeavesFailed(w) ==
    wk[w].pc = "release" /\ wk[w].res = "failed" /\ Steps(w)

\* C15: the lease is always released.  An invocation whose acquireLock
\* returned true goes from processOneJob to releaseLock for the same jobId
\* whether processOneJob returned, processOneJob raised or markDone raised,
\* and it returns only from outside the leased part of the loop or with the
\* releaseLock step itself (unless the platform ends it).
C15_LeaseAlwaysReleased ==
    [][\A w \in Workers :
        /\ (wk[w].pc = "processing" /\ Steps(w) /\ ~Killed(w)) =>
              After(w).pc \in {"markDone", "release"}
        /\ (wk[w].pc = "markDone" /\ Steps(w)) => After(w).pc = "release"
        /\ (wk[w].pc = "release" /\ Steps(w)) =>
              /\ lock'[wk[w].job.jobId] = 0
              /\ ~Holding(After(w))
        /\ Returns(w) => wk[w].pc \in {"dequeue", "acquire", "release"}
        /\ (Holding(wk[w]) /\ ~Holding(After(w))) =>
              wk[w].pc = "release" \/ Killed(w)
    ]_vars

\* a job failed in the first iteration of an invocation, its lease was
\* released and the invocation went on
C15_Witness ==
    \E w \in Workers :
        /\ wk[w].pc = "dequeue"
        /\ wk[w].i = 1
        /\ wk[w].res = "failed"
        /\ lock[wk[w].job.jobId] = 0
        /\ since[wk[w].job.jobId] = NoLease

\* C16: the list an invocation returns holds exactly the jobIds of the jobs
\* it popped, leased and for which processOneJob and markDone both completed,
\* in that order: the list starts empty, grows by the job's id at the end of a
\* markDone that did not raise, and is changed by no other step; a job that
\* failed or was skipped is not added.
C16_ProcessedListsSuccesses ==
    [][\A w \in Workers :
        (Steps(w) /\ ~Killed(w)) =>
            IF wk[w].pc = "idle"
            THEN After(w).processed = <<>>
            ELSE IF wk[w].pc = "markDone" /\ After(w).res = "done"
            THEN /\ After(w).processed =
                        Append(wk[w].processed, wk[w].job.jobId)
                 /\ done'[wk[w].job.jobId] = DoneTtl
            ELSE After(w).processed = wk[w].processed
    ]_vars

\* the second job of an invocation succeeded and is alone in the list: the
\* first one failed or was skipped
C16_Witness ==
    \E w \in Workers :
        /\ wk[w].pc = "release"
        /\ wk[w].i = 1
        /\ wk[w].res = "done"
        /\ wk[w].processed = <<wk[w].job.jobId>>

\* C17: producer deduplication.  A request whose jobId has a completion
\* record when the webhook calls isDone is answered without an enqueue and
\* the queue stays as it is; any other request goes on to enqueueJob, which
\* appends exactly one entry with that jobId at the tail; the webhook changes
\* the queue in no other step.
C17_WebhookDeduplicates ==
    [][/\ \A j \in JobIds :
            /\ (WebhookCheck(j) /\ done[j] > 0) =>
                  /\ wh'.pc = "idle"
                  /\ wh'.out = "deduped"
                  /\ queue' = queue
            /\ (WebhookCheck(j) /\ done[j] = 0) =>
                  /\ wh'.pc = "enqueue"
                  /\ wh'.jobId = j
                  /\ queue' = queue
       /\ (wh.pc = "enqueue" /\ wh' # wh) =>
            /\ Len(queue') = Len(queue) + 1
            /\ SubSeq(queue', 1, Len(queue)) = queue
            /\ WellFormed(queue'[Len(queue')])
            /\ JobOf(queue'[Len(queue')]).jobId = wh.jobId
            /\ wh'.pc = "idle"
       /\ (wh.pc # "enqueue" \/ wh' = wh) => Len(queue') <= Len(queue)
    ]_vars

\* a request was answered as a duplicate: its jobId had a completion record,
\* written by a worker for an earlier request
C17_Witness ==
    /\ wh = NoRequest("deduped")
    /\ enq >= 1
    /\ \E j \in JobIds : done[j] > 0 /\ marked[j].ttl = DoneTtl

\* C18: per-job failure isolation.  When processOneJob raises in iteration i
\* the invocation goes through releaseLock to iteration i + 1 while
\* i + 1 < maxJobs, and to the response 200 with the list of the jobs that
\* succeeded otherwise; it never answers with an error.
C18_FailureIsolated ==
    [][\A w \in Workers :
        /\ Raises(w) =>
              /\ After(w).pc = "release"
              /\ After(w).i = wk[w].i
              /\ After(w).out = "none"
              /\ After(w).processed = wk[w].processed
        /\ LeavesFailed(w) =>
              IF NumLess(Num(wk[w].i + 1), wk[w].maxJobs)
              THEN /\ After(w).pc = "dequeue"
                   /\ After(w).i = wk[w].i + 1
                   /\ After(w).processed = wk[w].processed
              ELSE /\ After(w).pc = "idle"
                   /\ After(w).out = "200"
                   /\ After(w).processed = wk[w].processed
        /\ Steps(w) => After(w).out \in {"none", "200", "killed"}
    ]_vars

\* after a job failed in the first iteration the invocation has popped the
\* job of its second iteration
C18_Witness ==
    \E w \in Workers :
        /\ wk[w].pc = "acquire"
        /\ wk[w].i = 1
        /\ wk[w].res = "failed"

\* C19: a job whose processOneJob raises is dropped.  Neither the raise nor
\* the steps of the invocation that follow it push anything onto the queue or
\* write a completion record, and the invocation goes on to releaseLock and
\* then to the next dequeueJob or to its response, never back to
\* processOneJob for the same job.
C19_FailedJobDropped ==
    [][\A w \in Workers :
        /\ Raises(w) =>
              /\ After(w).pc = "release"
              /\ queue' = queue
              /\ done' = done
        /\ LeavesFailed(w) =>
              /\ After(w).pc \in {"dequeue", "idle"}
              /\ queue' = queue
              /\ done' = done
    ]_vars

\* a job has failed, the queue is empty and there is no completion record
\* for its jobId
C19_Witness ==
    \E w \in Workers :
        /\ wk[w].pc = "release"
        /\ wk[w].res = "failed"
        /\ queue = <<>>
        /\ done[wk[w].job.jobId] = 0
        /\ marked[wk[w].job.jobId] = Never

\* the step is acquireLock returning false in invocation w
Contended(w) ==
    wk[w].pc = "acquire" /\ lock[wk[w].job.jobId] > 0 /\ Steps(w)

\* C20: lease contention is a skip.  When acquireLock returns false the
\* invocation does not call processOneJob, writes no completion record, pushes
\* nothing onto the queue, leaves the other holder's lease as it is, and goes
\* straight to the next iteration (or to its response when that was the last
\* one).
C20_ContentionSkips ==
    [][\A w \in Workers :
        Contended(w) =>
            /\ After(w).pc \in {"dequeue", "idle"}
            /\ After(w).pc = "dequeue" => After(w).i = wk[w].i + 1
            /\ After(w).pc = "idle" => After(w).out = "200"
            /\ After(w).processed = wk[w].processed
            /\ lock' = lock
            /\ since' = since
            /\ done' = done
            /\ queue' = queue
    ]_vars

\* an invocation skipped the job of its first iteration and the lease of the
\* other holder is as it was set
C20_Witness ==
    \E w \in Workers :
        /\ wk[w].pc = "dequeue"
        /\ wk[w].i = 1
        /\ wk[w].res = "skipped"
        /\ lock[wk[w].job.jobId] = LockTtl
        /\ done[wk[w].job.jobId] = 0

----------------------------------------------------------------------------
(* One worker invocation after the other drains a list it finds.  The     *)
(* entries of the list were pushed before the webhook's first request:    *)
(* their createdAt is 0, the slot of no request.                          *)

MaxLoad == 6        \* jobs in the longest list a draining invocation finds

\* maxJobs as a caller may send it: absent, null, zero, negative, within the
\* range, above it, fractional, and the strings of the GET query: a number,
\* zero, no number, empty
ClampInputs ==
    { Undefined, Null, Num(0), Num(0 - 3), Num(1), Num(3), Num(4), Num(5),
      Num(9), Frac(2, 5), Frac(4, 5), Str(JsonText(Num(3))),
      Str(JsonText(Num(0))), Str(Garbage), Str(EmptyText) }

\* an entry enqueueJob pushed
LoadedEntry == enqueuePayload(Obj("a", 0, "absent"))

\* The lists an invocation finds: none, more jobs than the largest maxJobs,
\* an empty string before a job, MaxAttempts strings that are no JSON before
\* a job.
DrainQueues ==
    { <<>>,
      Run(LoadedEntry, MaxLoad),
      <<Str(EmptyText), LoadedEntry>>,
      Run(Str(Garbage), MaxAttempts) \o <<LoadedEntry>> }

\* the invocation that drains
Drainer == 1

InitDrain ==
    /\ queue \in DrainQueues
    /\ qPre = queue
    /\ lock = [j \in JobIds |-> 0]
    /\ done = [j \in JobIds |-> 0]
    /\ ticks = 0
    /\ hist = <<>>
    /\ since = [j \in JobIds |-> NoLease]
    /\ marked = [j \in JobIds |-> Never]
    /\ kPre = Keys
    /\ InitSys

NextDrain ==
    \/ \E m \in ClampInputs : Start(Drainer, m)
    \/ DequeuePass(Drainer)
    \/ Acquire(Drainer)
    \/ \E raised \in BOOLEAN : ProcessEnd(Drainer, raised)
    \/ \E raised \in BOOLEAN : MarkDoneStep(Drainer, raised)
    \/ ReleaseStep(Drainer)

SpecDrain == InitDrain /\ [][NextDrain]_vars

\* C21: for every maxJobs a caller supplies (absent, zero, negative, above 5,
\* fractional, no number) the bound of the loop is clamped into 1..5: a
\* running invocation has a maxJobs of at least 1 and at most 5 and is in one
\* of its first five iterations, and an invocation that found entries in the
\* list has returned only after a dequeueJob call, which took at least one
\* entry from the list.
C21_ClampedOneToFive ==
    \A w \in Workers :
        /\ wk[w].pc # "idle" =>
              /\ ~NumLess(wk[w].maxJobs, Num(1))
              /\ ~NumLess(Num(5), wk[w].maxJobs)
              /\ wk[w].maxJobs.k = "number"
              /\ wk[w].i < 5
        /\ (wk[w].out = "200" /\ qPre # <<>>) => Len(queue) < Len(qPre)

\* the step is dequeueJob returning null to the loop of invocation w, which
\* breaks and responds
ReturnsNull(w) == wk[w].pc = "dequeue" /\ After(w).pc = "idle"

\* C22: an invocation stops before maxJobs iterations only when the queue is
\* empty: whenever dequeueJob returns null to the worker's loop, the queue
\* holds no entries at that moment.
C22_NullMeansEmpty ==
    [][\A w \in Workers : ReturnsNull(w) => queue' = <<>>]_vars

----------------------------------------------------------------------------
(* Properties of the lease under crashes and lapses *)

\* the ttl of the lease last set for jobId j has elapsed and no releaseLock
\* has deleted the key since
TtlElapsed(j) == since[j] # NoLease /\ since[j].age >= since[j].ttl

\* C23: a crashed holder does not block a jobId forever.  Once the ttl of a
\* lease has elapsed, whether its holder called releaseLock or was ended
\* before it could, the key is gone and acquireLock(jobId, ttl) by another
\* invocation returns true and sets the lease anew.
C23_CrashedLeaseRunsOut ==
    \A j \in JobIds :
        TtlElapsed(j) =>
            /\ lock[j] = 0
            /\ acquireLock(j, LockTtl).ok
            /\ acquireLock(j, LockTtl).m[j] = LockTtl

\* invocation 1 was ended inside processOneJob for a jobId, no invocation
\* was at work on that jobId when its lease ran out, and invocation 2 has
\* acquired the lease and is inside processOneJob for the same jobId
C23_Witness ==
    \E j \in JobIds :
        /\ wk[1].out = "killed"
        /\ wk[1].pc = "idle"
        /\ InProcess(2, j)
        /\ since[j].by = 2
        /\ lock[j] > 0
        /\ ~expired[j]
        /\ ticks >= 1
        /\ \A k \in JobIds \ {j} : since[k] = NoLease /\ lock[k] = 0

----------------------------------------------------------------------------
(* The scheduled drain alone.  Every kick of the webhook is lost, and the  *)
(* only worker invocations are the ones the schedule starts, one after the *)
(* other, with no maxJobs.                                                 *)

\* the invocation the schedule starts
Cron == 1

NextCron ==
    \/ \E j \in JobIds : WebhookCheck(j)
    \/ \E kick \in LostKicks : WebhookEnqueue(kick, Cron)
    \/ Start(Cron, Undefined)
    \/ DequeuePass(Cron)
    \/ Acquire(Cron)
    \/ \E raised \in BOOLEAN : ProcessEnd(Cron, raised)
    \/ \E raised \in BOOLEAN : MarkDoneStep(Cron, raised)
    \/ ReleaseStep(Cron)
    \/ Crash(Cron)
    \/ \E d \in TickSteps : Tick(d)

\* The schedule keeps starting invocations and the platform keeps running
\* the one it started: each step of the handler that stays possible is
\* taken.  Nothing is assumed of the webhook, of the clock or of the kicks.
CronRuns ==
    /\ WF_vars(Start(Cron, Undefined))
    /\ WF_vars(DequeuePass(Cron))
    /\ WF_vars(Acquire(Cron))
    /\ WF_vars(\E raised \in BOOLEAN : ProcessEnd(Cron, raised))
    /\ WF_vars(\E raised \in BOOLEAN : MarkDoneStep(Cron, raised))
    /\ WF_vars(ReleaseStep(Cron))

SpecCron == Init /\ [][NextCron]_vars /\ CronRuns

\* C24: correctness does not depend on the kick.  With every kick lost or
\* failed, every entry the webhook enqueued is eventually popped and returned
\* by a dequeueJob of a scheduled invocation; and whatever becomes of the
\* kick, the webhook's step after isDone pushes its entry and answers that
\* the job is enqueued.
C24_DrainedWithoutKick ==
    /\ \A n \in 1..MaxEnq : (n \in QueuedSlots) ~> (popped[n] = 1)
    /\ [][(wh.pc = "enqueue" /\ wh' # wh) =>
            /\ wh' = NoRequest("enqueued")
            /\ Len(queue') = Len(queue) + 1
            /\ SlotOf(queue'[Len(queue')]) = enq]_vars

\* the last request the webhook lets through has been answered, its kick was
\* lost, and every entry enqueued has been popped by a scheduled invocation
C24_Witness ==
    /\ enq = MaxEnq
    /\ wh = NoRequest("enqueued")
    /\ queue = <<>>
    /\ \A n \in 1..MaxEnq : popped[n] = 1
    /\ wk[2] = Idle

----------------------------------------------------------------------------
(* Properties of the completion ledger as the worker writes it *)

\* the step is markDone returning in invocation w for jobId j
WritesRecord(w, j) ==
    /\ wk[w].pc = "markDone"
    /\ wk[w].job.jobId = j
    /\ After(w).res = "done"

\* C25: a completion record for a jobId is there only if a worker invocation
\* wrote it less than DoneTtl seconds ago, right after its processOneJob for
\* that jobId returned without raising, the invocation having acquired the
\* lease of that jobId before it called processOneJob.  The record of a jobId
\* is written or renewed by no other step: not for a job that failed and not
\* for a job that was skipped.
C25_RecordOnlyAfterSuccess ==
    [][/\ (done' # done \/ marked' # marked) =>
            \A j \in JobIds :
                /\ done'[j] > 0 =>
                      /\ marked'[j].ttl = DoneTtl
                      /\ marked'[j].age < DoneTtl
                /\ (done'[j] > done[j] \/ marked'[j].age < marked[j].age) =>
                      /\ \E w \in Workers : WritesRecord(w, j)
                      /\ done'[j] = DoneTtl
       /\ (wk' # wk) =>
            \A w \in Workers :
                /\ (After(w).pc = "markDone" /\ Steps(w)) =>
                      /\ wk[w].pc = "processing"
                      /\ After(w).res = "none"
                      /\ After(w).job = wk[w].job
                /\ (After(w).pc = "processing" /\ Steps(w)) =>
                      /\ wk[w].pc = "acquire"
                      /\ lock[wk[w].job.jobId] = 0
                      /\ lock'[wk[w].job.jobId] = LockTtl
                      /\ since'[wk[w].job.jobId].by = w
                      /\ After(w).job = wk[w].job
                /\ (Raises(w) \/ LeavesFailed(w) \/ Contended(w)) =>
                      /\ done' = done
                      /\ marked' = marked
    ]_vars

\* time has passed since an invocation wrote the record of the job it
\* processed, the record is still there, and the other jobId, whose job
\* failed, has none
C25_Witness ==
    \E w1, w2 \in Workers :
        /\ wk[w1].res = "done"
        /\ wk[w1].pc = "dequeue"
        /\ done[wk[w1].job.jobId] > 0
        /\ marked[wk[w1].job.jobId].age > 0
        /\ wk[w2].res = "failed"
        /\ wk[w2].pc = "dequeue"
        /\ wk[w2].job.jobId # wk[w1].job.jobId
        /\ done[wk[w2].job.jobId] = 0
        /\ marked[wk[w2].job.jobId] = Never

\* invocation w is at or past the releaseLock of a job whose processOneJob and
\* markDone both returned
Succeeded(w) == wk[w].res = "done" /\ wk[w].pc \in {"release", "dequeue"}

\* C26: on a successful job the worker writes the completion record before
\* it releases the lease.  An invocation that is about to release, or has
\* released, the lease of a job it processed successfully has written the
\* record of that jobId, and so has every invocation for each jobId in the
\* list it returns.
C26_RecordBeforeRelease ==
    \A w \in Workers :
        /\ Succeeded(w) =>
              /\ marked[wk[w].job.jobId] # Never
              /\ marked[wk[w].job.jobId].ttl = DoneTtl
        /\ \A n \in 1..Len(wk[w].processed) :
              marked[wk[w].processed[n]] # Never

\* an invocation has released the lease of a job it processed successfully:
\* no lease is left and the record is as markDone wrote it
C26_Witness ==
    \E w \in Workers :
        /\ wk[w].pc = "dequeue"
        /\ wk[w].res = "done"
        /\ lock[wk[w].job.jobId] = 0
        /\ since[wk[w].job.jobId] = NoLease
        /\ done[wk[w].job.jobId] = DoneTtl
        /\ marked[wk[w].job.jobId].age = 0

\* C27: a worker's releaseLock never removes a lease another invocation
\* acquired.  In every interleaving, the ones where the first holder's lease
\* runs out while it is still at work and a second invocation acquires the
\* lease of the same jobId included, the lease key that the releaseLock of an
\* invocation deletes was set by the acquireLock of that invocation.
C27_ReleaseDeletesOwnLease ==
    [][\A w \in Workers :
        (wk[w].pc = "release" /\ Steps(w) /\ lock[wk[w].job.jobId] > 0) =>
            since[wk[w].job.jobId].by = w
    ]_vars

----------------------------------------------------------------------------
(* Calls of all the exported functions on one store: a list with entries,  *)
(* leases and completion records side by side.                             *)

\* the lists the callers find
MixedQueues == { <<>>, <<LoadedEntry>>, <<Str(Garbage), LoadedEntry>> }

InitMixed == InitStore(MixedQueues)

\* one caller makes the calls, with the default ttl of each function
MixedCallers == {1}

NextMixed ==
    \/ EnqueueJob(Obj("b", 0, "absent"))
    \/ DequeueJob
    \/ PurgeQueue
    \/ \E c \in MixedCallers, j \in JobIds : AcquireLock(c, j, DefaultLockTtl)
    \/ \E c \in MixedCallers, j \in JobIds : ReleaseLock(c, j)
    \/ \E c \in MixedCallers, j \in JobIds : MarkDone(c, j, DefaultDoneTtl)
    \/ \E c \in MixedCallers, j \in JobIds : IsDone(c, j)

SpecMixed == InitMixed /\ [][NextMixed]_vars

\* the call a step makes
Call == hist'[Len(hist')]

\* the keys of the jobIds other than id are as they were
OthersKept(m, id) == \A k \in JobIds \ {id} : m'[k] = m[k]

\* C28: key independence.  enqueueJob, dequeueJob and purgeQueue leave every
\* lease and every completion record unchanged; acquireLock, releaseLock,
\* markDone and isDone leave the queue unchanged; acquireLock and releaseLock
\* on one jobId leave the leases of every other jobId and all completion
\* records unchanged; markDone leaves all leases, and the records of every
\* other jobId, unchanged; isDone changes no key.
C28_KeyIndependence ==
    [][CASE Call.op \in {"enqueueJob", "dequeueJob", "purgeQueue"} ->
              lock' = lock /\ done' = done
         [] Call.op \in {"acquireLock", "releaseLock"} ->
              queue' = queue /\ done' = done /\ OthersKept(lock, Call.arg)
         [] Call.op = "markDone" ->
              queue' = queue /\ lock' = lock /\ OthersKept(done, Call.arg)
         [] Call.op = "isDone" ->
              queue' = queue /\ lock' = lock /\ done' = done
    ]_vars

\* the lease of one jobId was released after a purge of a list with entries,
\* and the lease of the other jobId and a completion record are still there
C28_Witness ==
    /\ Len(hist) = 2
    /\ Prev.op = "purgeQueue"
    /\ Prev.arg.v > 0
    /\ Last.op = "releaseLock"
    /\ Last.rem > 0
    /\ \E k \in JobIds \ {Last.arg} : lock[k] > 0
    /\ \E k \in JobIds : done[k] > 0

====
